---- MODULE Spec2Model ----
(***************************************************************************)
(* earlyoom: the control loop (poll_loop), the victim selector             *)
(* (kill_largest_process), the kill escalator (kill_wait), the emergency   *)
(* kill (kill_emergency) and the threshold handling of main/parse_config.  *)
(*                                                                         *)
(* The daemon is single threaded.  Every C function is a frame (a record   *)
(* of its locals), pc is the position of the thread and stack holds the    *)
(* positions to return to.  Percentages are whole numbers of percent,      *)
(* times are milliseconds.  The kernel (memory readings, /proc entries,    *)
(* results of kill(2), liveness of a pid) is the environment: every read   *)
(* of it is a choice from a small set.                                     *)
(***************************************************************************)
EXTENDS Integers, Sequences, FiniteSets, TLC

(***************************************************************************)
(* Program constants                                                       *)
(***************************************************************************)
SIGKILL == 9
SIGTERM == 15
\* SIGTERM_WAIT is 6.0 seconds; the model counts milliseconds
SIGTERM_WAIT == 6000
\* kill.c and kill.h: rows of victim_list, bytes of the emerg_kill string
EMERG_LIST_MAX == 64
EMERG_KILL_MAXLEN == 512
\* const unsigned poll_ms = 100 in kill_wait
poll_ms == 100
\* for (unsigned i = 0; i < 100; i++) in kill_wait
KW_TICKS == 100

\* minimum time between two calls of kill_emergency, in milliseconds
EMERGENCY_TIMEOUT == 30000
\* sleep_ms after kill_emergency
EMERGENCY_SLEEP == 2000
\* sleep_ms = (hystis == SIGKILL) ? 50 : 500
KILL_SLEEP == 50
TERM_SLEEP == 500
\* sleep_time_ms: kiB per millisecond, and the range of its result
mem_fill_rate == 6000
swap_fill_rate == 800
min_sleep == 100
max_sleep == 1000
\* badness adjustments of kill_largest_process
BADNESS_PREFER == 300
BADNESS_AVOID == -300
BADNESS_AVOID_USER == -150
BADNESS_AGE_DIV == 600

(***************************************************************************)
(* Bounds of the model                                                     *)
(***************************************************************************)
\* readdir returns at most MaxProcs entries of /proc in one scan
MaxProcs == 3
\* the daemon with victims to kill makes at most MaxIter passes of poll_loop
MaxIter == 2
\* poll_loop with no victim to find makes at most LoopIter passes: an
\* emergency, the 30000 ms after it at 2000 ms a pass, and the next emergency
LoopIter == 17
\* the configuration file has at most MaxLines lines
MaxLines == 3
\* the time slept since the last emergency is counted up to SleptCap
SleptCap == 30000
\* poll_loop is followed while report_countdown_ms is above -CountdownFloor
CountdownFloor == 32000
\* names in an emerg_kill list
MaxNames == 66

(***************************************************************************)
(* The environment's values                                                *)
(***************************************************************************)
\* MemAvailablePercent and SwapFreePercent as parse_meminfo may report them
MemVals == {1, 4, 8, 12, 60}
SwapVals == {0, 8, 80}
\* a host with 12000 MiB of memory and 80 MiB of swap
Readings == [MemAvailablePercent : MemVals, SwapFreePercent : SwapVals,
             MemTotalMiB : {12000}, SwapTotalMiB : {80}]
NoReading == [MemAvailablePercent |-> 0, SwapFreePercent |-> 0,
              MemTotalMiB |-> 0, SwapTotalMiB |-> 0]
\* what kill(2) may answer
KillOutcomes == {"ok", "ESRCH", "EPERM"}

(***************************************************************************)
(* Entries of /proc.  A read that fails returns a negative number, as the  *)
(* probes of meminfo.h do; stat and getpwuid fail by flag.                 *)
(***************************************************************************)
Proc(pid, score, adj, rss, name, user, runtime) ==
    [numeric |-> TRUE, pid |-> pid, oom_score |-> score,
     adj_res |-> 0, oom_score_adj |-> adj, rss |-> rss,
     comm_res |-> 0, name |-> name, uid |-> 1000,
     stat_ok |-> TRUE, pw_ok |-> TRUE, username |-> user,
     times |-> [valid |-> TRUE, c_runtime |-> runtime]]

InitEntry == Proc(1, 900, 0, 90, "init", "root", 6000)
SelfEntry == Proc(13, 150, 0, 10, "earlyoom", "root", 0)
\* getpid()
getpid == SelfEntry.pid

\* "meminfo", "self", ...: not a number
NonNumericEntry == [Proc(0, 0, 0, 0, "", "", 0) EXCEPT !.numeric = FALSE]

Entries ==
    { InitEntry, SelfEntry, NonNumericEntry,
      Proc(2, 100, 0, 50, "bash", "web", 0),
      Proc(3, 100, 0, 70, "php-cgi", "web", 1200),
      Proc(4, 100, 0, 50, "mysqld", "root", 600),
      Proc(5, 0, 0, 30, "sleep", "web", 0),
      \* a kernel thread: no resident pages
      Proc(6, 200, 0, 0, "kthreadd", "root", 0),
      \* protected from the kernel's OOM killer
      Proc(7, 200, -1000, 70, "sshd", "root", 0),
      Proc(8, 180, 150, 20, "chrome", "web", 0),
      \* gone, or unreadable, at one of the reads
      [Proc(9, 200, 0, 70, "gone", "web", 0) EXCEPT !.oom_score = -2],
      [Proc(10, 200, 0, 70, "gone", "web", 0) EXCEPT !.rss = -2],
      [Proc(11, 200, 0, 70, "gone", "web", 0) EXCEPT !.adj_res = -2],
      [Proc(12, 200, 0, 70, "", "web", 0) EXCEPT !.comm_res = -2],
      [Proc(14, 200, 0, 70, "gone", "web", 0) EXCEPT !.uid = -2],
      [Proc(15, 200, 0, 70, "nouser", "", 0) EXCEPT !.pw_ok = FALSE],
      \* /proc/16/stat could not be read: no process times
      [Proc(16, 100, 0, 60, "mysqld", "web", 0) EXCEPT !.times.valid = FALSE] }

\* a compiled regex is the set of strings it matches; NULL matches nothing
NoRegex == [null |-> TRUE, matches |-> {}]
Regex(S) == [null |-> FALSE, matches |-> S]
regexec(re, str) == str \in re.matches

VARIABLES
    args,    \* poll_loop_args_t, fixed once main has read the configuration
    world,   \* the host: what /proc may list, what /proc/meminfo may say
    pc,      \* position of the thread
    stack,   \* positions to return to, innermost call first
    pl,      \* frame of poll_loop
    klp,     \* frame of kill_largest_process
    kw,      \* frame of kill_wait
    ke,      \* frame of kill_emergency
    errno,   \* the C library's errno
    status,  \* contents of the status file
    cf,      \* frame of parse_config
    log      \* what the daemon did to the outside in the current pass of
             \* poll_loop (or top-level call), in order: kill(2) calls,
             \* notifier spawns, sleep(1)

vars == <<args, world, pc, stack, pl, klp, kw, ke, errno, status, cf, log>>

(***************************************************************************)
(* The outside: kill(2), notify(), sleep()                                 *)
(***************************************************************************)
KillRes(outcome) == IF outcome = "ok" THEN 0 ELSE -1

\* a failed call sets errno, a successful one leaves it
KillErrno(outcome, old) == IF outcome = "ok" THEN old ELSE outcome

KillCall(pid, sig, outcome, by) ==
    [kind |-> "kill", pid |-> pid, sig |-> sig, res |-> KillRes(outcome), by |-> by,
     err |-> IF outcome = "ok" THEN "none" ELSE outcome]

NotifyCall(by) ==
    [kind |-> "notify", pid |-> 0, sig |-> 0, res |-> 0, by |-> by, err |-> "none"]

SleepCall(by) ==
    [kind |-> "sleep", pid |-> 0, sig |-> 0, res |-> 0, by |-> by, err |-> "none"]

IsKill(ev) == ev.kind = "kill"

\* the kill(2) calls of the log
Kills == SelectSeq(log, IsKill)

Return == /\ pc' = Head(stack)
          /\ stack' = Tail(stack)

(***************************************************************************)
(* kill_wait                                                               *)
(***************************************************************************)
KwNone == [pid |-> 0, sig |-> 0, i |-> 0, res |-> 0,
           m |-> NoReading, alive |-> TRUE, done |-> FALSE]

\* kill_wait(args, pid, sig) is entered
KwFrame(pid, sig) == [KwNone EXCEPT !.pid = pid, !.sig = sig]

\* a plausible slip: dryrun not looked at by kill_wait
DryrunSkipsNever(a, sig) == FALSE

\* if (args->dryrun && sig != 0)
DryrunSkips(a, sig) == a.dryrun /\ sig # 0

\* float secs = (float)(i * poll_ms) / 1000, kept in milliseconds
SecsMs(i) == i * poll_ms

\* a plausible slip: ">" for ">=", the escalation comes one tick late
EscalationDueLate(a, i, m) ==
    \/ SecsMs(i) > SIGTERM_WAIT
    \/ /\ m.MemAvailablePercent <= a.mem_kill_percent
       /\ m.SwapFreePercent <= a.swap_kill_percent

\* secs >= SIGTERM_WAIT || (m.MemAvailablePercent <= args->mem_kill_percent
\*                          && m.SwapFreePercent <= args->swap_kill_percent)
EscalationDue(a, i, m) ==
    \/ SecsMs(i) >= SIGTERM_WAIT
    \/ /\ m.MemAvailablePercent <= a.mem_kill_percent
       /\ m.SwapFreePercent <= a.swap_kill_percent

\* a plausible slip: "<=" for "<", one tick too many
KwLoopCondOneMore(i) == i <= KW_TICKS

\* i < 100
KwLoopCond(i) == i < KW_TICKS

\* a plausible slip: the probe signal waited for like any other
IsProbeNever(sig) == FALSE

\* if (sig == 0): signal 0 does not kill the process, it is not waited for
IsProbe(sig) == sig = 0

\* entry of kill_wait up to the first tick of the wait loop
KwEnter ==
    /\ pc = "kill_wait"
    /\ IF DryrunSkips(args, kw.sig)
       THEN /\ kw' = [kw EXCEPT !.res = 0, !.done = TRUE]
            /\ Return
            /\ UNCHANGED <<errno, log>>
       ELSE \E o \in KillOutcomes :
              /\ log' = Append(log, KillCall(kw.pid, kw.sig, o, "kill_wait"))
              /\ errno' = KillErrno(o, errno)
              /\ IF KillRes(o) # 0
                 THEN /\ kw' = [kw EXCEPT !.res = KillRes(o), !.done = TRUE]
                      /\ Return
                 ELSE IF IsProbe(kw.sig)
                 THEN /\ kw' = [kw EXCEPT !.res = 0, !.done = TRUE]
                      /\ Return
                 ELSE /\ kw' = [kw EXCEPT !.i = 0]
                      /\ pc' = "kw_loop"
                      /\ UNCHANGED stack
    /\ UNCHANGED <<args, world, cf, pl, klp, ke, status>>

\* is_alive(pid), then either return 0 or usleep(poll_ms * 1000) and i++
KwAliveCheck(frame) ==
    \E alive \in BOOLEAN :
      IF ~alive
      THEN /\ kw' = [frame EXCEPT !.alive = FALSE, !.res = 0, !.done = TRUE]
           /\ Return
      ELSE /\ kw' = [frame EXCEPT !.alive = TRUE, !.i = frame.i + 1]
           /\ UNCHANGED <<pc, stack>>

\* a plausible slip: the escalation tried in every tick
MayEscalateAlways(sig) == TRUE

\* if (sig != SIGKILL)
MayEscalate(sig) == sig # SIGKILL

\* one pass through the body of the wait loop (the enable_debug branch only
\* prints)
KwTick ==
    /\ pc = "kw_loop"
    /\ KwLoopCond(kw.i)
    /\ IF MayEscalate(kw.sig)
       THEN \E r \in world.readings :
              IF EscalationDue(args, kw.i, r)
              THEN \E o \in KillOutcomes :
                     /\ log' = Append(log, KillCall(kw.pid, SIGKILL, o, "kill_wait"))
                     /\ errno' = KillErrno(o, errno)
                     /\ IF KillRes(o) # 0
                        THEN /\ kw' = [kw EXCEPT !.m = r, !.sig = SIGKILL,
                                                 !.res = KillRes(o), !.done = TRUE]
                             /\ Return
                        ELSE KwAliveCheck([kw EXCEPT !.m = r, !.sig = SIGKILL,
                                                     !.res = 0])
              ELSE /\ KwAliveCheck([kw EXCEPT !.m = r])
                   /\ UNCHANGED <<errno, log>>
       ELSE /\ KwAliveCheck(kw)
            /\ UNCHANGED <<errno, log>>
    /\ UNCHANGED <<args, world, cf, pl, klp, ke, status>>

\* the loop ran out: errno = ETIME; return -1
KwTimeout ==
    /\ pc = "kw_loop"
    /\ ~KwLoopCond(kw.i)
    /\ errno' = "ETIME"
    /\ kw' = [kw EXCEPT !.res = -1, !.done = TRUE]
    /\ Return
    /\ UNCHANGED <<args, world, cf, pl, klp, ke, status, log>>

(***************************************************************************)
(* kill_largest_process                                                    *)
(***************************************************************************)
\* struct procinfo cur = { .pid = ..., .uid = -1, .badness = -1, ... }
NewCur(pid) ==
    [pid |-> pid, uid |-> -1, badness |-> -1, VmRSSkiB |-> -1,
     rtime |-> 0, name |-> "", username |-> ""]

\* struct procinfo victim = { 0 }
VictimInit ==
    [pid |-> 0, uid |-> 0, badness |-> 0, VmRSSkiB |-> 0,
     rtime |-> 0, name |-> "", username |-> ""]

NoTimes == [valid |-> FALSE, c_runtime |-> 0]

\* kill_largest_process(args, sig) is entered; seen lists the entries readdir
\* has returned so far and trace what the loop body did with each
KlpFrame(sig) ==
    [sig |-> sig, victim |-> VictimInit, candidates |-> 0, ptimes |-> NoTimes,
     seen |-> <<>>, trace |-> <<>>, res |-> 0, saved_errno |-> "none"]

\* a plausible slip: "<" for "<=", init is a candidate
SkipsPidFromZero(pid) == pid < 1

\* if (cur.pid <= 1) continue
SkipsPid(pid) == pid <= 1

\* the name is read when a regex on names is configured
NeedsName(a) == ~a.prefer_regex.null \/ ~a.avoid_regex.null \/ ~a.prefer_old.null

\* cur.badness after the oom_score, oom_score_adj, regex, user and age rules
\* (lines 176-232), for an entry all of whose reads succeed; ptimes is the
\* variable of that name as the age rule finds it
CurBadness(a, e, ptimes) ==
    LET b0 == e.oom_score
        b1 == IF a.ignore_oom_score_adj /\ e.oom_score_adj > 0
              THEN b0 - e.oom_score_adj ELSE b0
        b2 == IF ~a.prefer_regex.null /\ regexec(a.prefer_regex, e.name)
              THEN b1 + BADNESS_PREFER ELSE b1
        b3 == IF ~a.avoid_regex.null /\ regexec(a.avoid_regex, e.name)
              THEN b2 + BADNESS_AVOID ELSE b2
        b4 == IF /\ ~a.prefer_old.null /\ regexec(a.prefer_old, e.name)
                 /\ ptimes.valid
              THEN b3 + (ptimes.c_runtime \div BADNESS_AGE_DIV) ELSE b3
        b5 == IF ~a.avoid_users.null /\ regexec(a.avoid_users, e.username)
              THEN b4 + BADNESS_AVOID_USER ELSE b4
    IN  b5

\* the same with the times of the entry itself, which is what ptimes holds
\* whenever prefer_old is configured
Badness(a, e) == CurBadness(a, e, e.times)

\* a plausible slip: ptimes kept when the times of this process are not valid
FetchTimesIfValid(a, f, e) ==
    IF ~a.prefer_old.null /\ e.times.valid THEN [f EXCEPT !.ptimes = e.times] ELSE f

\* if (args->prefer_old) ptimes = get_process_times(cur.pid);
FetchTimes(a, f, e) ==
    IF ~a.prefer_old.null THEN [f EXCEPT !.ptimes = e.times] ELSE f

\* a plausible slip: a failed read taken for a value
ReadFailedNever(res) == FALSE

\* if (res < 0) continue
ReadFailed(res) == res < 0

\* a plausible slip: the first comparison with the victim left out
LowerBadnessNever(b, v) == FALSE

\* if (cur.badness < victim.badness) continue
LowerBadness(b, v) == b < v.badness

\* if (cur.badness == victim.badness && cur.VmRSSkiB <= victim.VmRSSkiB) continue
NotLarger(b, rss, v) == b = v.badness /\ rss <= v.VmRSSkiB

\* if (cur.VmRSSkiB == 0) continue
ZeroRss(rss) == rss = 0

\* if (oom_score_adj == -1000) continue
Unkillable(adj) == adj = -1000

\* what the loop body did with an entry: whether it got to candidates++, the
\* badness it had computed by then, and whether get_vm_rss_kib and the
\* get_oom_score_adj of line 276 were called
Traced(f, counted, badness, rss_read, adj_read) ==
    [f EXCEPT !.trace = Append(@, [counted |-> counted, badness |-> badness,
                                   rss_read |-> rss_read, adj_read |-> adj_read])]

\* the body of the readdir loop for entry e: the frame afterwards
ScanEntry(a, f, e) ==
    IF ~e.numeric \/ SkipsPid(e.pid) \/ ReadFailed(e.oom_score)
       \/ (a.ignore_oom_score_adj /\ ReadFailed(e.adj_res))
    THEN Traced(f, FALSE, -1, FALSE, FALSE)
    ELSE
    LET \* get times for all processes if prefer_old is enabled
        f1 == FetchTimes(a, f, e)
        rtime == IF ~a.prefer_old.null /\ f1.ptimes.valid
                 THEN f1.ptimes.c_runtime ELSE 0
        name1 == IF NeedsName(a) THEN e.name ELSE ""
        username == IF ~a.avoid_users.null THEN e.username ELSE ""
        badness == CurBadness(a, e, f1.ptimes)
        f2 == [f1 EXCEPT !.candidates = @ + 1]
        v == f.victim
    IN  IF NeedsName(a) /\ ReadFailed(e.comm_res)
        THEN Traced(f1, FALSE, -1, FALSE, FALSE)
        ELSE IF ~a.avoid_users.null /\ (~e.stat_ok \/ ~e.pw_ok)
        THEN Traced(f1, FALSE, -1, FALSE, FALSE)
        ELSE IF LowerBadness(badness, v) THEN Traced(f2, TRUE, badness, FALSE, FALSE)
        ELSE IF ReadFailed(e.rss) THEN Traced(f2, TRUE, badness, TRUE, FALSE)
        ELSE IF ZeroRss(e.rss) THEN Traced(f2, TRUE, badness, TRUE, FALSE)
        ELSE IF NotLarger(badness, e.rss, v)
        THEN Traced(f2, TRUE, badness, TRUE, FALSE)
        ELSE IF ReadFailed(e.adj_res) THEN Traced(f2, TRUE, badness, TRUE, TRUE)
        ELSE IF Unkillable(e.oom_score_adj)
        THEN Traced(f2, TRUE, badness, TRUE, TRUE)
        ELSE IF name1 = "" /\ ReadFailed(e.comm_res)
        THEN Traced(f2, TRUE, badness, TRUE, TRUE)
        ELSE IF ReadFailed(e.uid) THEN Traced(f2, TRUE, badness, TRUE, TRUE)
        ELSE Traced([f2 EXCEPT !.victim =
                        [pid |-> e.pid, uid |-> e.uid, badness |-> badness,
                         VmRSSkiB |-> e.rss, rtime |-> rtime, name |-> e.name,
                         username |-> username]],
                    TRUE, badness, TRUE, TRUE)

SeenPids(f) == {f.seen[k].pid : k \in 1..Len(f.seen)}

\* errno = 0; readdir returns an entry of /proc and the loop body runs on it
KlpReaddir ==
    /\ pc = "klp_scan"
    /\ Len(klp.seen) < MaxProcs
    /\ \E e \in world.pool :
         /\ e.pid \notin SeenPids(klp)
         /\ klp' = [ScanEntry(args, klp, e) EXCEPT !.seen = Append(klp.seen, e)]
    /\ errno' = "none"
    /\ UNCHANGED <<args, world, cf, pc, stack, pl, kw, ke, status, log>>

\* if (candidates <= 1 && victim.pid == getpid()) victim.pid = 0
\* a plausible slip: the hidepid test left out
OnlyMyselfNever(f) == FALSE

OnlyMyself(f) == f.candidates <= 1 /\ f.victim.pid = getpid

\* errno = 0; readdir returns NULL: closedir, then no victim (sleep one second and
\* return) or the call of kill_wait
KlpEndOfDir ==
    /\ pc = "klp_scan"
    /\ LET pid == IF OnlyMyself(klp) THEN 0 ELSE klp.victim.pid
           f == [klp EXCEPT !.victim.pid = pid]
       IN  IF pid <= 0
           THEN /\ klp' = f
                /\ log' = log \o (IF args.notify
                                  THEN <<NotifyCall("no victim")>> ELSE <<>>)
                              \o <<SleepCall("no victim")>>
                /\ Return
                /\ UNCHANGED kw
           ELSE /\ klp' = f
                /\ kw' = KwFrame(pid, klp.sig)
                /\ pc' = "kill_wait"
                /\ stack' = <<"klp_after">> \o stack
                /\ UNCHANGED log
    /\ errno' = "none"
    /\ UNCHANGED <<args, world, cf, pl, ke, status>>

\* a plausible slip: the throttle of the failure path left out
PermissionDeniedNever(saved_errno) == FALSE

\* if (saved_errno == EPERM)
PermissionDenied(saved_errno) == saved_errno = "EPERM"

\* kill_wait has returned: the notification, then the failure path
KlpAfterKill ==
    /\ pc = "klp_after"
    /\ klp' = [klp EXCEPT !.res = kw.res, !.saved_errno = errno]
    /\ LET told == IF klp.sig # 0 /\ args.notify
                   THEN <<NotifyCall("killing")>> ELSE <<>>
           failed == IF klp.sig # 0 /\ kw.res # 0
                     THEN (IF args.notify THEN <<NotifyCall("kill failed")>> ELSE <<>>)
                          \o (IF PermissionDenied(errno)
                              THEN <<SleepCall("EPERM")>> ELSE <<>>)
                     ELSE <<>>
       IN  log' = log \o told \o failed
    /\ Return
    /\ UNCHANGED <<args, world, cf, pl, kw, ke, errno, status>>

(***************************************************************************)
(* kill_emergency                                                          *)
(***************************************************************************)
\* oob: a write behind the end of victim_list has happened
KeNone == [victim_list |-> <<>>, num_victim |-> 0, i |-> 0, kills |-> 0,
           m |-> NoReading, seen |-> <<>>, oob |-> FALSE]

NotComma(piece) == piece # ","

\* strtok(emerg_kill_str, ","): the names between the commas, in order.  The
\* list is a sequence of pieces, each a name or a comma.
StrTok(str) == SelectSeq(str, NotComma)

\* the list is copied and split into victim_list
KeEnter ==
    /\ pc = "kill_emergency"
    /\ ke' = [KeNone EXCEPT !.victim_list = StrTok(args.emerg_kill.str),
                            !.num_victim = Len(StrTok(args.emerg_kill.str))]
    /\ pc' = "ke_loop"
    /\ UNCHANGED <<args, world, cf, stack, pl, klp, kw, errno, status, log>>

\* one turn of the strtok loop (lines 397-401), taken on its own:
\* strncpy(victim_list[num_victim], ttok, PROC_LEN_MAX); num_victim++.  No
\* test of num_victim against EMERG_LIST_MAX stands in the loop; the write
\* behind the last row is undefined: the run goes on with the name lost, or
\* with it stored, or dies
KeSplitTok ==
    /\ pc = "ke_split"
    /\ ke.num_victim < Len(StrTok(args.emerg_kill.str))
    /\ LET ttok == StrTok(args.emerg_kill.str)[ke.num_victim + 1]
       IN  IF ke.num_victim < EMERG_LIST_MAX
           THEN /\ ke' = [ke EXCEPT !.victim_list = Append(@, ttok),
                                    !.num_victim = @ + 1]
                /\ UNCHANGED pc
           ELSE \/ /\ ke' = [ke EXCEPT !.num_victim = @ + 1, !.oob = TRUE]
                   /\ UNCHANGED pc
                \/ /\ ke' = [ke EXCEPT !.victim_list = Append(@, ttok),
                                       !.num_victim = @ + 1, !.oob = TRUE]
                   /\ UNCHANGED pc
                \/ /\ ke' = [ke EXCEPT !.oob = TRUE]
                   /\ pc' = "crashed"
    /\ UNCHANGED <<args, world, cf, stack, pl, klp, kw, errno, status, log>>

\* ttok == NULL: the loop over the names begins
KeSplitEnd ==
    /\ pc = "ke_split"
    /\ ke.num_victim >= Len(StrTok(args.emerg_kill.str))
    /\ pc' = "ke_loop"
    /\ UNCHANGED <<args, world, cf, stack, pl, klp, kw, ke, errno, status, log>>

\* a plausible slip: the break left out
KeRecoveredNever(a, m) == FALSE

\* if (m.MemAvailablePercent > args->mem_high_percent) break
KeRecovered(a, m) == m.MemAvailablePercent > a.mem_high_percent

\* head of the for loop over the names: a fresh snapshot, then either the end
\* of kill_emergency or the scan of /proc for victim_list[i]
KeNextName ==
    /\ pc = "ke_loop"
    /\ IF ke.i < ke.num_victim
       THEN \E r \in world.readings :
              IF KeRecovered(args, r)
              THEN /\ ke' = [ke EXCEPT !.m = r]
                   /\ Return
              ELSE /\ ke' = [ke EXCEPT !.m = r, !.seen = <<>>]
                   /\ pc' = "ke_scan"
                   /\ UNCHANGED stack
       ELSE /\ Return
            /\ UNCHANGED ke
    /\ UNCHANGED <<args, world, cf, pl, klp, kw, errno, status, log>>

\* a plausible slip: only pid 0 and below are passed over
KeSkipsPidFromZero(pid) == pid < 1

\* if (cur.pid <= 1) continue;   -- "Let's not kill init."
KeSkipsPid(pid) == pid <= 1

\* if (cur.pid <= 1) continue ... if (!strcmp(cur.name, victim_name))
KeMatches(e, victim_name) ==
    /\ e.numeric
    /\ ~KeSkipsPid(e.pid)
    /\ e.comm_res >= 0
    /\ e.name = victim_name

\* errno = 0; readdir returns an entry: kill(cur.pid, SIGKILL) if its name is the one
\* looked for; the answer of kill is not looked at
KeReaddir ==
    /\ pc = "ke_scan"
    /\ Len(ke.seen) < MaxProcs
    /\ \E e \in world.pool :
         /\ e.pid \notin {ke.seen[k].pid : k \in 1..Len(ke.seen)}
         /\ IF KeMatches(e, ke.victim_list[ke.i + 1])
            THEN \E o \in KillOutcomes :
                   /\ log' = Append(log, KillCall(e.pid, SIGKILL, o, "kill_emergency"))
                   /\ errno' = KillErrno(o, "none")
                   /\ ke' = [ke EXCEPT !.seen = Append(@, e), !.kills = @ + 1]
            ELSE /\ ke' = [ke EXCEPT !.seen = Append(@, e)]
                 /\ errno' = "none"
                 /\ UNCHANGED log
    /\ UNCHANGED <<args, world, cf, pc, stack, pl, klp, kw, status>>

\* errno = 0; readdir returns NULL: closedir, i++
KeEndOfDir ==
    /\ pc = "ke_scan"
    /\ ke' = [ke EXCEPT !.i = @ + 1, !.seen = <<>>]
    /\ pc' = "ke_loop"
    /\ errno' = "none"
    /\ UNCHANGED <<args, world, cf, stack, pl, klp, kw, status, log>>

(***************************************************************************)
(* poll_loop                                                               *)
(***************************************************************************)
\* an unsigned int, as its two 16-bit halves
Uint(n) == [hi |-> n \div 65536, lo |-> n % 65536]

\* what an unsigned int that was never assigned may hold: 0, or 4294967196
UninitSleep == {Uint(0), [hi |-> 65535, lo |-> 65436]}

\* (int)sleep_ms
ToInt(u) == IF u.hi >= 32768 THEN (u.hi - 65536) * 65536 + u.lo
            ELSE u.hi * 65536 + u.lo

Max0(x) == IF x < 0 THEN 0 ELSE x

\* a plausible slip: the upper clamp left out
sleep_time_ms_unclamped(a, m) ==
    LET mem_headroom_kib ==
            Max0((m.MemAvailablePercent - a.mem_term_percent) * 10 * m.MemTotalMiB)
        swap_headroom_kib ==
            Max0((m.SwapFreePercent - a.swap_term_percent) * 10 * m.SwapTotalMiB)
        ms == (mem_headroom_kib \div mem_fill_rate)
              + (swap_headroom_kib \div swap_fill_rate)
    IN  IF ms < min_sleep THEN min_sleep ELSE ms

\* sleep_time_ms
sleep_time_ms(a, m) ==
    LET mem_headroom_kib ==
            Max0((m.MemAvailablePercent - a.mem_term_percent) * 10 * m.MemTotalMiB)
        swap_headroom_kib ==
            Max0((m.SwapFreePercent - a.swap_term_percent) * 10 * m.SwapTotalMiB)
        ms == (mem_headroom_kib \div mem_fill_rate)
              + (swap_headroom_kib \div swap_fill_rate)
    IN  IF ms < min_sleep THEN min_sleep
        ELSE IF ms > max_sleep THEN max_sleep
        ELSE ms

\* the locals of poll_loop at its first pass.  prev_sig (the signal the pass
\* before decided on), since_emerg (milliseconds slept at the end of passes
\* since the last call of kill_emergency, -1 before the first), calls (the
\* functions the pass has called so far), n (passes made), writes (calls of
\* update_status made) and assigned (sleep_ms has been given a value) are
\* history, not C variables.
PlFrame(garbage) ==
    [sleep_ms |-> garbage, report_countdown_ms |-> 0, hystis |-> 0,
     emergency_invoked |-> FALSE, emergency_timeout_ms |-> 0,
     current_setpoint |-> 0, sig |-> 0, high |-> FALSE, m |-> NoReading,
     branch |-> "none", calls |-> <<>>, prev_sig |-> 0, since_emerg |-> -1,
     n |-> 0, writes |-> 0, assigned |-> FALSE]

PlNone == PlFrame(Uint(0))

\* a plausible slip: the cooldown is not looked at
EmergencyDueNoCooldown(a, p, m) ==
    /\ ~a.emerg_kill.null
    /\ m.MemAvailablePercent <= a.mem_emerg_percent
    /\ m.SwapFreePercent <= a.swap_kill_percent

\* args->emerg_kill && emergency_timeout_ms <= 0 &&
\* m.MemAvailablePercent <= args->mem_emerg_percent &&
\* m.SwapFreePercent <= args->swap_kill_percent
EmergencyDue(a, p, m) ==
    /\ ~a.emerg_kill.null
    /\ p.emergency_timeout_ms <= 0
    /\ m.MemAvailablePercent <= a.mem_emerg_percent
    /\ m.SwapFreePercent <= a.swap_kill_percent

\* a plausible slip: "||" for "&&"
KillDueEither(a, m) ==
    \/ m.MemAvailablePercent <= a.mem_kill_percent
    \/ m.SwapFreePercent <= a.swap_kill_percent

KillDue(a, m) ==
    /\ m.MemAvailablePercent <= a.mem_kill_percent
    /\ m.SwapFreePercent <= a.swap_kill_percent

TermDue(a, m) ==
    /\ m.MemAvailablePercent <= a.mem_term_percent
    /\ m.SwapFreePercent <= a.swap_term_percent

\* a plausible slip: the hysteresis is kept up for SIGTERM only
HysteresisArmedTermOnly(p) == p.hystis = SIGTERM

\* else if (hystis > 0)
HysteresisArmed(p) == p.hystis > 0

\* a plausible slip: the test of the high watermark left out
BelowHighAlways(a, m) == TRUE

\* if (m.MemAvailablePercent <= args->mem_high_percent)
BelowHigh(a, m) == m.MemAvailablePercent <= a.mem_high_percent

\* a plausible slip: the setpoint of the last kill kept after the recovery
RecoveryKeepsSetpoint(q) == [q EXCEPT !.hystis = 0, !.branch = "recovered"]

\* a plausible slip: the hysteresis left armed after the recovery
RecoveryKeepsHystis(q) == [q EXCEPT !.current_setpoint = 0, !.branch = "recovered"]

\* hystis = 0; current_setpoint = 0;
Recovery(q) == [q EXCEPT !.hystis = 0, !.current_setpoint = 0,
                         !.branch = "recovered"]

\* the if / else if chain at the head of the pass (lines 459-494): the frame
\* after it, branch naming the arm that was taken
Decide(a, p, m) ==
    LET q == [p EXCEPT !.m = m, !.sig = 0, !.high = FALSE]
    IN  IF EmergencyDue(a, p, m)
        THEN [q EXCEPT !.sig = SIGKILL, !.emergency_invoked = TRUE,
                       !.current_setpoint = a.mem_emerg_percent,
                       !.branch = "emergency"]
        ELSE IF KillDue(a, m)
        THEN [q EXCEPT !.sig = SIGKILL, !.current_setpoint = a.mem_kill_percent,
                       !.branch = "kill"]
        ELSE IF TermDue(a, m)
        THEN [q EXCEPT !.sig = SIGTERM, !.current_setpoint = a.mem_term_percent,
                       !.branch = "term"]
        ELSE IF HysteresisArmed(p)
        THEN IF BelowHigh(a, m)
             THEN [q EXCEPT !.sig = p.hystis, !.high = TRUE,
                            !.current_setpoint = a.mem_high_percent,
                            !.branch = "high"]
             ELSE Recovery(q)
        ELSE [q EXCEPT !.branch = "none"]

\* a plausible slip: the status word taken from the signal alone
update_status_by_signal(sig, emergency, high, memavail, setpoint) ==
    [code |-> IF emergency THEN "emergency"
              ELSE IF sig = SIGTERM THEN "term"
              ELSE IF sig = SIGKILL THEN "kill"
              ELSE "ok",
     memavail |-> memavail, setpoint |-> setpoint]

\* update_status: the first three lines of the status file (the fourth is
\* the time of day); the directory of the file exists
update_status(sig, emergency, high, memavail, setpoint) ==
    [code |-> IF high THEN "high"
              ELSE IF emergency THEN "emergency"
              ELSE IF sig = SIGTERM THEN "term"
              ELSE IF sig = SIGKILL THEN "kill"
              ELSE "ok",
     memavail |-> memavail, setpoint |-> setpoint]

NoStatus == [code |-> "none", memavail |-> 0, setpoint |-> 0]

SleptSince(since, ms) ==
    IF since < 0 THEN since
    ELSE IF since + ms > SleptCap THEN SleptCap ELSE since + ms

\* usleep(sleep_ms * 1000) and the two countdowns (lines 515-520); the
\* locals of the pass go out of scope
EndOfPass(p) ==
    [p EXCEPT !.report_countdown_ms = @ - ToInt(p.sleep_ms),
              !.emergency_timeout_ms = IF @ > 0 THEN @ - ToInt(p.sleep_ms) ELSE @,
              !.since_emerg = SleptSince(@, ToInt(p.sleep_ms)),
              !.prev_sig = p.sig,
              !.sig = 0, !.high = FALSE, !.m = NoReading, !.branch = "none",
              !.calls = <<>>]

\* a plausible slip: the call of update_status moved into "if (sig)"
StatusWritesIfSignal(d) == d.sig # 0

\* update_status(...) at line 497 stands outside every if of the pass
StatusWrites(d) == TRUE

\* poll_loop is entered: its locals are initialised, sleep_ms is not
PollEnter ==
    /\ pc = "poll_loop"
    /\ \E g \in UninitSleep : pl' = PlFrame(g)
    /\ pc' = "poll"
    /\ log' = <<>>
    /\ klp' = KlpFrame(0)
    /\ kw' = KwNone
    /\ UNCHANGED <<args, world, cf, stack, ke, errno, status>>

\* head of a pass: the snapshot, the decision, the status file, and the call
\* of kill_emergency or kill_largest_process if a signal was decided on
PollDecide ==
    /\ pc = "poll"
    /\ pl.n < world.passes
    /\ pl.report_countdown_ms > -CountdownFloor
    /\ pl.report_countdown_ms < CountdownFloor
    /\ \E r \in world.readings :
         LET d == Decide(args, pl, r)
             callee == IF d.sig = 0 THEN <<>>
                       ELSE IF d.emergency_invoked THEN <<"kill_emergency">>
                       ELSE <<"kill_largest_process">>
         IN  /\ pl' = [d EXCEPT !.n = @ + 1, !.calls = @ \o callee,
                                 !.writes = IF StatusWrites(d) THEN @ + 1 ELSE @]
             /\ status' = IF StatusWrites(d)
                           THEN update_status(d.sig, d.emergency_invoked, d.high,
                                              r.MemAvailablePercent,
                                              d.current_setpoint)
                           ELSE status
             /\ IF d.sig # 0
                THEN IF d.emergency_invoked
                     THEN /\ pc' = "kill_emergency"
                          /\ stack' = <<"poll_after_emergency">> \o stack
                          /\ UNCHANGED klp
                     ELSE /\ klp' = KlpFrame(d.sig)
                          /\ pc' = "klp_scan"
                          /\ stack' = <<"poll_after_kill">> \o stack
                ELSE /\ pc' = "poll_idle"
                     /\ UNCHANGED <<stack, klp>>
    /\ log' = <<>>
    /\ UNCHANGED <<args, world, cf, kw, ke, errno>>

\* kill_emergency has returned (lines 502-504, 509), then the end of the pass
PollAfterEmergency ==
    /\ pc = "poll_after_emergency"
    /\ pl' = EndOfPass([pl EXCEPT !.sleep_ms = Uint(EMERGENCY_SLEEP),
                                  !.assigned = TRUE,
                                  !.emergency_timeout_ms = EMERGENCY_TIMEOUT,
                                  !.emergency_invoked = FALSE,
                                  !.hystis = pl.sig,
                                  !.since_emerg = 0])
    /\ ke' = KeNone
    /\ pc' = "poll"
    /\ UNCHANGED <<args, world, cf, stack, klp, kw, errno, status, log>>

\* kill_largest_process has returned (lines 507, 509), then the end of the
\* pass
PollAfterKill ==
    /\ pc = "poll_after_kill"
    /\ pl' = EndOfPass([pl EXCEPT
                 !.sleep_ms = Uint(IF pl.hystis = SIGKILL THEN KILL_SLEEP ELSE TERM_SLEEP),
                 !.assigned = TRUE,
                 !.hystis = pl.sig])
    /\ klp' = KlpFrame(0)
    /\ kw' = KwNone
    /\ pc' = "poll"
    /\ UNCHANGED <<args, world, cf, stack, ke, errno, status, log>>

\* no signal: the periodic report if it is due (lines 510-514), then the end
\* of the pass
PollIdle ==
    /\ pc = "poll_idle"
    /\ pl' = EndOfPass(IF args.report_interval_ms # 0 /\ pl.report_countdown_ms <= 0
                       THEN [pl EXCEPT !.report_countdown_ms = args.report_interval_ms,
                                       !.sleep_ms = Uint(sleep_time_ms(args, pl.m)),
                                       !.assigned = TRUE]
                       ELSE pl)
    /\ pc' = "poll"
    /\ UNCHANGED <<args, world, cf, stack, klp, kw, ke, errno, status, log>>

(***************************************************************************)
(* main: the thresholds, and parse_config                                  *)
(***************************************************************************)
CfNone == [lines |-> 0]

\* the keys of the configuration file that set a threshold
ThresholdKeys ==
    {"memory_high", "memory_low", "memory_kill", "memory_emerg", "swap_low",
     "swap_kill"}

\* values written in a configuration file
CfgValues == {"0", "2", "5", "10", "20", "-5", "yes"}

\* atof: the number the string starts with, 0 if it starts with none
atof(s) ==
    CASE s = "0" -> 0
      [] s = "2" -> 2
      [] s = "5" -> 5
      [] s = "10" -> 10
      [] s = "20" -> 20
      [] s = "-5" -> -5
      [] OTHER -> 0

\* the if / else if chain over ckey (lines 57-108), for the keys that set a
\* threshold and for a key that is not recognised
SetKey(a, ckey, cvalue) ==
    IF ckey = "memory_high" THEN [a EXCEPT !.mem_high_percent = atof(cvalue)]
    ELSE IF ckey = "memory_low" THEN [a EXCEPT !.mem_term_percent = atof(cvalue)]
    ELSE IF ckey = "memory_kill" THEN [a EXCEPT !.mem_kill_percent = atof(cvalue)]
    ELSE IF ckey = "memory_emerg" THEN [a EXCEPT !.mem_emerg_percent = atof(cvalue)]
    ELSE IF ckey = "swap_low" THEN [a EXCEPT !.swap_term_percent = atof(cvalue)]
    ELSE IF ckey = "swap_kill" THEN [a EXCEPT !.swap_kill_percent = atof(cvalue)]
    ELSE a

\* if (config_path) parse_config(config_path, &args): no -c, or the file is
\* read
MainConfig ==
    /\ pc = "main_config"
    /\ \/ pc' = "main"
       \/ pc' = "parse_config"
    /\ cf' = CfNone
    /\ UNCHANGED <<args, world, stack, pl, klp, kw, ke, errno, status, log>>

\* getline returns a line "ckey=cvalue"
ParseConfigLine ==
    /\ pc = "parse_config"
    /\ cf.lines < MaxLines
    /\ \E ckey \in ThresholdKeys \cup {"color"}, cvalue \in CfgValues :
         args' = SetKey(args, ckey, cvalue)
    /\ cf' = [cf EXCEPT !.lines = @ + 1]
    /\ UNCHANGED <<world, pc, stack, pl, klp, kw, ke, errno, status, log>>

\* getline returns -1: fclose, return 0
ParseConfigEof ==
    /\ pc = "parse_config"
    /\ pc' = "main"
    /\ UNCHANGED <<args, world, cf, stack, pl, klp, kw, ke, errno, status, log>>

(***************************************************************************)
(* Configurations                                                          *)
(***************************************************************************)
\* poll_loop_args_t args = { ... } in main; omitted fields are zero
DefaultArgs ==
    [mem_high_percent |-> 15, mem_term_percent |-> 10, swap_term_percent |-> 10,
     mem_kill_percent |-> 5, swap_kill_percent |-> 5, mem_emerg_percent |-> 0,
     report_interval_ms |-> 1000, ignore_oom_score_adj |-> FALSE,
     notify |-> FALSE, dryrun |-> FALSE, nice |-> FALSE,
     prefer_regex |-> NoRegex, avoid_regex |-> NoRegex,
     avoid_users |-> NoRegex, prefer_old |-> NoRegex,
     emerg_kill |-> [null |-> TRUE, str |-> <<>>]]

\* the sample configuration: memory_emerg=2 and a list for emerg_kill
EmergencyArgs ==
    [DefaultArgs EXCEPT !.mem_emerg_percent = 2,
                        !.emerg_kill = [null |-> FALSE,
                                        str |-> <<"php-cgi", ",", "bash">>]]

\* any /proc, any reading
AnyWorld == [pool |-> Entries, readings |-> Readings, passes |-> MaxIter]

Reading(mem, swap) ==
    [MemAvailablePercent |-> mem, SwapFreePercent |-> swap,
     MemTotalMiB |-> 12000, SwapTotalMiB |-> 80]

\* one reading for each arm of the decision of poll_loop, under the default
\* thresholds and memory_emerg=2: emergency, kill, term, low memory with
\* free swap, between term and high, recovered
LoopReadings ==
    {Reading(1, 0), Reading(4, 0), Reading(8, 8), Reading(4, 80),
     Reading(12, 80), Reading(60, 80)}

\* a host mounted with hidepid: /proc lists the daemon alone
HidepidWorld ==
    [pool |-> {SelfEntry},
     readings |-> {Reading(1, 0), Reading(8, 8), Reading(12, 80), Reading(60, 80)},
     passes |-> LoopIter]

\* a host on which /proc shows two user processes
SmallWorld ==
    [pool |-> {Proc(2, 100, 0, 50, "bash", "user", 0),
               Proc(3, 100, 0, 70, "php-cgi", "user", 1200)},
     readings |-> LoopReadings, passes |-> MaxIter]

\* the regexes of earlyoom.conf.sample
SampleRegexArgs ==
    [DefaultArgs EXCEPT !.prefer_regex = Regex({"php-cgi"}),
                        !.avoid_regex = Regex({"mysqld"}),
                        !.avoid_users = Regex({"root"}),
                        !.prefer_old = Regex({"php-cgi", "mysqld"})]

\* configurations of the selector: nothing, -i, each regex alone, all of them
SelectorArgs ==
    { DefaultArgs,
      [DefaultArgs EXCEPT !.ignore_oom_score_adj = TRUE],
      [DefaultArgs EXCEPT !.prefer_regex = SampleRegexArgs.prefer_regex],
      [DefaultArgs EXCEPT !.avoid_regex = SampleRegexArgs.avoid_regex],
      [DefaultArgs EXCEPT !.avoid_users = SampleRegexArgs.avoid_users],
      [DefaultArgs EXCEPT !.prefer_old = SampleRegexArgs.prefer_old],
      SampleRegexArgs,
      [SampleRegexArgs EXCEPT !.ignore_oom_score_adj = TRUE] }

(***************************************************************************)
(* kill_wait on its own: any victim, any of the three signals, dryrun or   *)
(* not                                                                     *)
(***************************************************************************)
InitKW ==
    /\ args \in {[DefaultArgs EXCEPT !.dryrun = d] : d \in BOOLEAN}
    /\ world = AnyWorld
    /\ pc = "kill_wait"
    /\ stack = <<"done">>
    /\ pl = PlNone
    /\ klp = KlpFrame(0)
    /\ ke = KeNone
    /\ status = NoStatus
    /\ cf = CfNone
    /\ \E e \in Entries, sig \in {0, SIGTERM, SIGKILL} :
         /\ e.pid \in {2, 3}
         /\ kw = KwFrame(e.pid, sig)
    /\ errno = "none"
    /\ log = <<>>

NextKW == KwEnter \/ KwTick \/ KwTimeout

\* the thread is never suspended for good: every sleep of kill_wait is finite
SpecKW == InitKW /\ [][NextKW]_vars /\ WF_vars(NextKW)

(***************************************************************************)
(* One scan of kill_largest_process, up to the call of kill_wait           *)
(***************************************************************************)
InitScan ==
    /\ args \in SelectorArgs
    /\ world = AnyWorld
    /\ pc = "klp_scan"
    /\ stack = <<"done">>
    /\ pl = PlNone
    /\ ke = KeNone
    /\ status = NoStatus
    /\ cf = CfNone
    /\ klp \in {KlpFrame(sig) : sig \in {0, SIGTERM}}
    /\ kw = KwNone
    /\ errno = "none"
    /\ log = <<>>

NextScan == KlpReaddir \/ KlpEndOfDir

SpecScan == InitScan /\ [][NextScan]_vars

(***************************************************************************)
(* poll_loop on a host where no victim is ever found                       *)
(***************************************************************************)
LoopArgs ==
    {[EmergencyArgs EXCEPT !.report_interval_ms = 0]}

InitLoop ==
    /\ args \in LoopArgs
    /\ world = HidepidWorld
    /\ pc = "poll_loop"
    /\ stack = <<>>
    /\ pl = PlNone
    /\ klp = KlpFrame(0)
    /\ kw = KwNone
    /\ ke = KeNone
    /\ errno = "none"
    /\ status = NoStatus
    /\ cf = CfNone
    /\ log = <<>>

NextLoop ==
    \/ PollEnter \/ PollDecide \/ PollAfterEmergency \/ PollAfterKill \/ PollIdle
    \/ KlpReaddir \/ KlpEndOfDir
    \/ KeEnter \/ KeNextName \/ KeReaddir \/ KeEndOfDir

SpecLoop == InitLoop /\ [][NextLoop]_vars

(***************************************************************************)
(* The daemon from the end of startup: the self-test call of               *)
(* kill_largest_process with signal 0, then poll_loop                      *)
(***************************************************************************)
\* the defaults; the sample's emergency settings; the same with --dryrun
DaemonArgs ==
    {DefaultArgs, EmergencyArgs, [EmergencyArgs EXCEPT !.dryrun = TRUE]}

\* kill_largest_process(&args, 0); poll_loop(&args);
MainSelfTest ==
    /\ pc = "main"
    /\ klp' = KlpFrame(0)
    /\ pc' = "klp_scan"
    /\ stack' = <<"poll_loop">>
    /\ UNCHANGED <<args, world, cf, pl, kw, ke, errno, status, log>>

Init ==
    /\ args \in DaemonArgs
    /\ world = SmallWorld
    /\ pc = "main"
    /\ stack = <<>>
    /\ pl = PlNone
    /\ klp = KlpFrame(0)
    /\ kw = KwNone
    /\ ke = KeNone
    /\ errno = "none"
    /\ status = NoStatus
    /\ cf = CfNone
    /\ log = <<>>

Next ==
    \/ MainSelfTest
    \/ PollEnter \/ PollDecide \/ PollAfterEmergency \/ PollAfterKill \/ PollIdle
    \/ KlpReaddir \/ KlpEndOfDir \/ KlpAfterKill
    \/ KwEnter \/ KwTick \/ KwTimeout
    \/ KeEnter \/ KeNextName \/ KeReaddir \/ KeEndOfDir

Spec == Init /\ [][Next]_vars

(***************************************************************************)
(* The daemon with and without dryrun, on a host whose pid 1 has a name    *)
(* of the emergency list (a container started by a shell)                  *)
(***************************************************************************)
CtlArgs ==
    {[DefaultArgs EXCEPT !.dryrun = TRUE], EmergencyArgs,
     [EmergencyArgs EXCEPT !.dryrun = TRUE]}

CtlWorld ==
    [pool |-> {Proc(1, 900, 0, 90, "bash", "root", 6000),
               Proc(3, 100, 0, 70, "php-cgi", "user", 1200)},
     readings |-> LoopReadings, passes |-> MaxIter]

InitCtl ==
    /\ args \in CtlArgs
    /\ world = CtlWorld
    /\ pc = "main"
    /\ stack = <<>>
    /\ pl = PlNone
    /\ klp = KlpFrame(0)
    /\ kw = KwNone
    /\ ke = KeNone
    /\ errno = "none"
    /\ status = NoStatus
    /\ cf = CfNone
    /\ log = <<>>

NextCtl ==
    \/ MainSelfTest
    \/ PollEnter \/ PollDecide \/ PollAfterEmergency \/ PollAfterKill \/ PollIdle
    \/ KlpReaddir \/ KlpEndOfDir \/ KlpAfterKill
    \/ KwEnter \/ KwTick \/ KwTimeout
    \/ KeEnter \/ KeNextName \/ KeReaddir \/ KeEndOfDir

SpecCtl == InitCtl /\ [][NextCtl]_vars

(***************************************************************************)
(* kill_emergency splitting a list that parse_config accepted: n names of  *)
(* one byte each, 2n - 1 bytes with the commas                             *)
(***************************************************************************)
NameList(n) == [k \in 1..(2 * n - 1) |-> IF k % 2 = 1 THEN "x" ELSE ","]

SplitArgs ==
    {[EmergencyArgs EXCEPT !.emerg_kill.str = NameList(n)] : n \in 1..MaxNames}

InitSplit ==
    /\ args \in SplitArgs
    /\ Len(args.emerg_kill.str) < EMERG_KILL_MAXLEN
    /\ world = CtlWorld
    /\ pc = "ke_split"
    /\ stack = <<"poll_after_emergency">>
    /\ pl = PlNone
    /\ klp = KlpFrame(0)
    /\ kw = KwNone
    /\ ke = KeNone
    /\ errno = "none"
    /\ status = NoStatus
    /\ cf = CfNone
    /\ log = <<>>

NextSplit == KeSplitTok \/ KeSplitEnd

SpecSplit == InitSplit /\ [][NextSplit]_vars

(***************************************************************************)
(* The self-test of main on any /proc, up to the call of poll_loop         *)
(***************************************************************************)
SelfTestArgs ==
    {DefaultArgs, [DefaultArgs EXCEPT !.notify = TRUE],
     [DefaultArgs EXCEPT !.dryrun = TRUE]}

InitSelfTest ==
    /\ args \in SelfTestArgs
    /\ world = AnyWorld
    /\ pc = "main"
    /\ stack = <<>>
    /\ pl = PlNone
    /\ klp = KlpFrame(0)
    /\ kw = KwNone
    /\ ke = KeNone
    /\ errno = "none"
    /\ status = NoStatus
    /\ cf = CfNone
    /\ log = <<>>

NextSelfTest ==
    MainSelfTest \/ KlpReaddir \/ KlpEndOfDir \/ KwEnter \/ KlpAfterKill

SpecSelfTest == InitSelfTest /\ [][NextSelfTest]_vars

(***************************************************************************)
(* sleep_time_ms on its own: any snapshot with percentages from 0 to 100,  *)
(* any term limits from 0 to 100                                           *)
(***************************************************************************)
SleepReadings ==
    [MemAvailablePercent : {0, 5, 10, 11, 50, 100},
     SwapFreePercent : {0, 10, 50, 100},
     MemTotalMiB : {0, 600, 12000, 1000000},
     SwapTotalMiB : {0, 80, 8000}]

SleepArgs ==
    {[DefaultArgs EXCEPT !.mem_term_percent = mt, !.swap_term_percent = st] :
        mt \in {0, 10, 50, 100}, st \in {0, 10, 100}}

InitSleep ==
    /\ args \in SleepArgs
    /\ world = AnyWorld
    /\ pc = "sleep_time_ms"
    /\ stack = <<"done">>
    /\ \E r \in SleepReadings : pl = [PlNone EXCEPT !.m = r]
    /\ klp = KlpFrame(0)
    /\ kw = KwNone
    /\ ke = KeNone
    /\ errno = "none"
    /\ status = NoStatus
    /\ cf = CfNone
    /\ log = <<>>

\* sleep_ms = sleep_time_ms(args, &m);
SleepTimeCall ==
    /\ pc = "sleep_time_ms"
    /\ pl' = [pl EXCEPT !.sleep_ms = Uint(sleep_time_ms(args, pl.m)),
                         !.assigned = TRUE]
    /\ Return
    /\ UNCHANGED <<args, world, cf, klp, kw, ke, errno, status, log>>

NextSleep == SleepTimeCall

SpecSleep == InitSleep /\ [][NextSleep]_vars

(***************************************************************************)
(* Startup without -m, -s, -M, -S: the configuration file, the self-test,  *)
(* up to the call of poll_loop                                             *)
(***************************************************************************)
InitCfg ==
    /\ args = DefaultArgs
    /\ world = HidepidWorld
    /\ pc = "main_config"
    /\ stack = <<>>
    /\ pl = PlNone
    /\ klp = KlpFrame(0)
    /\ kw = KwNone
    /\ ke = KeNone
    /\ errno = "none"
    /\ status = NoStatus
    /\ cf = CfNone
    /\ log = <<>>

NextCfg ==
    \/ MainConfig \/ ParseConfigLine \/ ParseConfigEof
    \/ MainSelfTest \/ KlpReaddir \/ KlpEndOfDir

SpecCfg == InitCfg /\ [][NextCfg]_vars

(***************************************************************************)
(* Claims about kill_wait                                                  *)
(***************************************************************************)
\* this step made exactly one kill(2) call, a SIGKILL to the pid of the wait
SendsSigkill ==
    /\ Len(log') = Len(log) + 1
    /\ log'[Len(log')].kind = "kill"
    /\ log'[Len(log')].sig = SIGKILL
    /\ log'[Len(log')].pid = kw.pid
    /\ SubSeq(log', 1, Len(log)) = log

\* C3: in a wait begun with SIGTERM, a tick sends SIGKILL if and only if its
\* index is at least 60 (6.0 s at 100 ms a tick) or the snapshot read in that
\* tick has MemAvailable <= mem_kill and SwapFree <= swap_kill; a tick that
\* does not escalate sends nothing.  The signal of the wait stays SIGTERM until
\* then, so the SIGKILL goes out at the first such tick and only there.
C3_EscalationCorrect ==
    [][(pc = "kw_loop" /\ kw.sig = SIGTERM) =>
         LET due == \/ kw.i >= 60
                    \/ /\ kw'.m.MemAvailablePercent <= args.mem_kill_percent
                       /\ kw'.m.SwapFreePercent <= args.swap_kill_percent
         IN  /\ kw.i < 100
             /\ SendsSigkill <=> due
             /\ ~SendsSigkill => (log' = log /\ kw'.sig = SIGTERM)
             /\ SendsSigkill => kw'.sig = SIGKILL]_vars

\* C3 witness: the wait escalated at tick 60 on time alone, memory being fine
C3_Witness ==
    /\ pc = "kw_loop" /\ kw.i = 61 /\ kw.sig = SIGKILL
    /\ Len(log) = 2 /\ log[1].sig = SIGTERM /\ log[2].sig = SIGKILL
    /\ kw.m.MemAvailablePercent > args.mem_kill_percent

AllKillsOk == \A k \in 1..Len(Kills) : Kills[k].res = 0

C10_Inv ==
    /\ kw.i <= 100
    /\ pc = "kw_loop" => (kw.alive /\ ~kw.done)
    /\ ~kw.alive => (kw.done /\ kw.res = 0)
    /\ kw.done => ((kw.res = -1 /\ errno = "ETIME")
                     <=> (kw.i = 100 /\ kw.alive /\ AllKillsOk /\ Kills # <<>>))

\* C10: kill_wait returns; its wait makes at most 100 ticks; the first tick
\* that finds the pid gone returns 0; it returns -1 with ETIME exactly when the
\* pid was alive at all 100 ticks and no kill(2) call failed.
C10_WaitBounded == []C10_Inv /\ <>(kw.done)

\* C10 witness: the victim never exits and kill_wait gives up with ETIME
C10_Witness ==
    /\ kw.done /\ kw.res = -1 /\ errno = "ETIME" /\ kw.i = 100 /\ kw.alive

(***************************************************************************)
(* Claims about the scan of kill_largest_process                           *)
(***************************************************************************)
ScanEnded == pc \in {"kill_wait", "done"}

\* the entry survives the skip rules: it is a process other than init, every
\* read of it succeeds, it has resident pages, it is not protected, and its
\* user is found when avoid_users is configured
Survives(a, e) ==
    /\ e.numeric /\ e.pid > 1
    /\ e.oom_score >= 0 /\ e.adj_res >= 0 /\ e.rss >= 0 /\ e.comm_res >= 0 /\ e.uid >= 0
    /\ e.rss > 0
    /\ e.oom_score_adj # -1000
    /\ ~a.avoid_users.null => (e.stat_ok /\ e.pw_ok)

\* (badness, rss) of x is lexicographically below that of y
LexLess(a, x, y) ==
    \/ Badness(a, x) < Badness(a, y)
    \/ Badness(a, x) = Badness(a, y) /\ x.rss < y.rss

\* seen[k] survives, nothing that survives is greater, and nothing seen
\* before it is as great
IsBestSeen(a, seen, k) ==
    /\ Survives(a, seen[k])
    /\ \A j \in 1..Len(seen) :
         Survives(a, seen[j]) =>
           \/ LexLess(a, seen[j], seen[k])
           \/ (j >= k /\ ~LexLess(a, seen[k], seen[j]))

\* a process other than the daemon itself survives
SomeoneSurvives ==
    \E k \in 1..Len(klp.seen) :
      Survives(args, klp.seen[k]) /\ klp.seen[k].pid # getpid

\* C4 (as claimed): when the scan has ended and a process other than the daemon
\* survives the skip rules, the victim handed to kill_wait is the first-seen
\* survivor with the lexicographically greatest (badness, rss_kib).
C4_SelectsGreatest ==
    (ScanEnded /\ SomeoneSurvives) =>
       /\ pc = "kill_wait"
       /\ \E k \in 1..Len(klp.seen) :
            IsBestSeen(args, klp.seen, k) /\ kw.pid = klp.seen[k].pid

\* C5: the pid handed to kill_wait is greater than 1, and what the scan read
\* of that process is a resident set above zero and an oom_score_adj above
\* -1000.
C5_VictimSafe ==
    pc = "kill_wait" =>
       /\ kw.pid > 1
       /\ \E k \in 1..Len(klp.seen) :
            /\ klp.seen[k].pid = kw.pid
            /\ klp.seen[k].rss > 0
            /\ klp.seen[k].adj_res >= 0
            /\ klp.seen[k].oom_score_adj > -1000

\* C5 witness: a victim is chosen although init and a protected process, both
\* with a higher oom_score, were seen before it
C5_Witness ==
    /\ pc = "kill_wait"
    /\ Len(klp.seen) = 3
    /\ klp.seen[1].pid = 1 /\ klp.seen[1].oom_score > klp.victim.badness
    /\ klp.seen[2].oom_score_adj = -1000 /\ klp.seen[2].oom_score > klp.victim.badness
    /\ klp.seen[3].pid = kw.pid

(***************************************************************************)
(* Claims about poll_loop                                                  *)
(***************************************************************************)
\* the step is the head of a pass of poll_loop
DecisionStep == pc = "poll" /\ pc' # "poll"

\* the thread is in the middle of a pass: the decision is made, the sleep at
\* the end is not
MidPass == pc \notin {"main_config", "parse_config", "main", "poll_loop", "poll"}
           /\ pl.n > 0

\* C1: a pass takes the emergency path only if no pass took it before, or if
\* the sleeps made at the ends of the passes since the last one that took it
\* (its own 2000 ms included) add up to 30000 ms or more.
C1_EmergencyDebounce ==
    [][(DecisionStep /\ pc' = "kill_emergency") =>
         (pl.since_emerg = -1 \/ pl.since_emerg >= 30000)]_vars

\* C1 witness: a pass that reads memory and swap at the emergency limits
\* less than 30000 ms of sleep after the last emergency, and goes to
\* kill_largest_process
C1_Witness ==
    /\ pc = "klp_scan"
    /\ pl.since_emerg >= 2000 /\ pl.since_emerg < 30000
    /\ pl.m.MemAvailablePercent <= args.mem_emerg_percent
    /\ pl.m.SwapFreePercent <= args.swap_kill_percent
    /\ pl.calls = <<"kill_largest_process">>

\* a kill(2) call of the log that sent a signal other than 0
Delivered(c) == c.kind = "kill" /\ c.sig # 0

\* C2 (as claimed): with dryrun, no kill(2) call with a signal other than 0 is
\* made, by kill_wait or by kill_emergency.
C2_DryrunSendsNothing ==
    args.dryrun => \A k \in 1..Len(log) : ~Delivered(log[k])

\* C6: the head of every pass decides by the first match of emergency, kill,
\* term, hysteresis, none: the signal, and which of kill_emergency and
\* kill_largest_process is called; no pass calls both.
C6_Priority ==
    /\ [][DecisionStep =>
            LET mem == pl'.m.MemAvailablePercent
                swap == pl'.m.SwapFreePercent
            IN  IF /\ ~args.emerg_kill.null /\ pl.emergency_timeout_ms <= 0
                   /\ mem <= args.mem_emerg_percent /\ swap <= args.swap_kill_percent
                THEN pl'.sig = SIGKILL /\ pc' = "kill_emergency"
                ELSE IF mem <= args.mem_kill_percent /\ swap <= args.swap_kill_percent
                THEN pl'.sig = SIGKILL /\ pc' = "klp_scan" /\ klp'.sig = SIGKILL
                ELSE IF mem <= args.mem_term_percent /\ swap <= args.swap_term_percent
                THEN pl'.sig = SIGTERM /\ pc' = "klp_scan" /\ klp'.sig = SIGTERM
                ELSE IF pl.hystis # 0 /\ mem <= args.mem_high_percent
                THEN pl'.sig = pl.hystis /\ pc' = "klp_scan" /\ klp'.sig = pl.hystis
                ELSE pl'.sig = 0 /\ pc' = "poll_idle"]_vars
    /\ [](Len(pl.calls) <= 1)
    /\ []((pc \in {"kill_emergency", "ke_loop", "ke_scan"})
            => pl.calls = <<"kill_emergency">>)
    /\ []((MidPass /\ pc \in {"klp_scan", "kill_wait", "kw_loop", "klp_after"})
            => pl.calls = <<"kill_largest_process">>)

\* C6 witness: memory and swap are at the emergency limits, which are also
\* below the kill and the term limits, and the pass is in kill_emergency
C6_Witness ==
    /\ pc = "ke_scan"
    /\ pl.sig = SIGKILL
    /\ pl.m.MemAvailablePercent <= args.mem_kill_percent
    /\ pl.m.SwapFreePercent <= args.swap_kill_percent
    /\ pl.calls = <<"kill_emergency">>

\* C7: a pass that follows a pass with a signal and reads MemAvailable at or
\* below the high watermark decides on a signal too and calls one of the two
\* kill functions; hystis goes back to 0 only in a pass that reads
\* MemAvailable above the high watermark.
C7_KeepsKilling ==
    /\ []((MidPass /\ pl.prev_sig # 0
              /\ pl.m.MemAvailablePercent <= args.mem_high_percent)
            => (pl.sig # 0 /\ pl.hystis # 0 /\ Len(pl.calls) = 1))
    /\ [][(pl.hystis # 0 /\ pl'.hystis = 0)
            => (DecisionStep /\ pl'.m.MemAvailablePercent > args.mem_high_percent)]_vars

\* C7 witness: after a pass with a signal, a pass reads MemAvailable above the
\* term limit and at or below the high watermark, with swap free, and kills
C7_Witness ==
    /\ pc = "kill_wait"
    /\ pl.prev_sig # 0
    /\ pl.m.MemAvailablePercent > args.mem_term_percent
    /\ pl.m.MemAvailablePercent <= args.mem_high_percent
    /\ pl.m.SwapFreePercent > args.swap_term_percent
    /\ pl.sig = pl.hystis

\* the pass has sent a signal to a process
SignalSent == MidPass /\ \E k \in 1..Len(log) : Delivered(log[k])

C9_ThresholdsOrdered ==
    pc = "poll_loop" =>
       /\ args.mem_high_percent >= args.mem_term_percent
       /\ args.mem_term_percent >= args.mem_kill_percent
       /\ args.mem_kill_percent >= args.mem_emerg_percent
       /\ args.mem_emerg_percent >= 0
       /\ args.swap_term_percent >= args.swap_kill_percent
       /\ args.swap_kill_percent >= 0

(***************************************************************************)
(* Claims about the sleep after a kill                                     *)
(***************************************************************************)
\* the last pass went through kill_largest_process and has slept
AfterKillPass == pc = "poll" /\ pl.n > 0 /\ status.code \in {"kill", "term", "high"}

\* C11 (as claimed): after a pass that was not an emergency, the sleep at its
\* end was 50 ms if the pass decided on SIGKILL and 500 ms if it decided on
\* SIGTERM, whatever the passes before decided.
C11_SleepBySignal ==
    AfterKillPass =>
       /\ pl.prev_sig = SIGKILL => ToInt(pl.sleep_ms) = 50
       /\ pl.prev_sig = SIGTERM => ToInt(pl.sleep_ms) = 500

(***************************************************************************)
(* Claims about kill_emergency                                             *)
(***************************************************************************)
\* the name of a pid, as the host shows it
CommOf(pid) == (CHOOSE e \in world.pool : e.pid = pid).name

\* the position of a name in the list split at the commas
PositionOf(name) ==
    CHOOSE k \in 1..Len(ke.victim_list) :
       /\ ke.victim_list[k] = name
       /\ \A j \in 1..(k - 1) : ke.victim_list[j] # name

InEmergency == pc \in {"ke_loop", "ke_scan", "poll_after_emergency"}

\* C12: kill_emergency takes the names from left to right; it scans for a name
\* only under a fresh reading with MemAvailable at or below the high watermark
\* and stops at the first reading above it, so that no process of that or a
\* later name is signalled; in a scan every entry with a pid above 1 and the
\* very name gets a SIGKILL at once, and nothing else gets a signal.
C12_EmergencyOrder ==
    InEmergency =>
       /\ ke.victim_list = <<"php-cgi", "bash">>
       /\ kw = KwNone
       /\ \A k \in 1..Len(log) :
            /\ log[k].kind = "kill" /\ log[k].by = "kill_emergency"
            /\ log[k].sig = SIGKILL /\ log[k].pid > 1
            /\ CommOf(log[k].pid) \in {ke.victim_list[j] : j \in 1..Len(ke.victim_list)}
            /\ PositionOf(CommOf(log[k].pid)) <= ke.i + 1
            /\ pc # "ke_scan" => PositionOf(CommOf(log[k].pid)) <= ke.i
            /\ \A j \in 1..(k - 1) :
                 PositionOf(CommOf(log[j].pid)) <= PositionOf(CommOf(log[k].pid))
       /\ pc = "ke_scan" =>
            /\ ke.i < Len(ke.victim_list)
            /\ ke.m.MemAvailablePercent <= args.mem_high_percent
            /\ \A n \in 1..Len(ke.seen) :
                 (ke.seen[n].pid > 1 /\ ke.seen[n].name = ke.victim_list[ke.i + 1])
                    => \E k \in 1..Len(log) : log[k].pid = ke.seen[n].pid
       /\ pc = "poll_after_emergency" =>
            \/ ke.i = Len(ke.victim_list)
            \/ ke.m.MemAvailablePercent > args.mem_high_percent

\* C12 witness: php-cgi was killed, the reading taken before the scan for
\* bash is above the high watermark, and kill_emergency has returned with bash
\* running and never signalled
C12_Witness ==
    /\ pc = "poll_after_emergency"
    /\ ke.i = 1 /\ ke.kills = 1
    /\ ke.m.MemAvailablePercent > args.mem_high_percent
    /\ Len(log) = 1 /\ CommOf(log[1].pid) = "php-cgi"


\* the last kill(2) call of the log
LastKill == Kills[Len(Kills)]

\* C13 (as claimed): a signal of the kill path (the first one or the
\* escalation) that fails because the victim no longer exists counts as a
\* success: kill_wait returns 0 for it, and kill_largest_process, which takes
\* its "kill failed" path on res != 0, sees 0
C13_GoneIsSuccess ==
    (/\ kw.done
     /\ Kills # <<>>
     /\ LastKill.by = "kill_wait"
     /\ LastKill.sig # 0
     /\ LastKill.err = "ESRCH") =>
        /\ kw.res = 0
        /\ pc = "poll_after_kill" => klp.res = 0

\* a signal of the control loop (not the probe of the startup self-test, which
\* returns to main) that kill(2) refused with EPERM
DeniedKill(ev) ==
    ev.kind = "kill" /\ ev.by = "kill_wait" /\ ev.sig # 0 /\ ev.err = "EPERM"

\* C14: a signalling call of the kill path that fails with EPERM is followed
\* by the one-second sleep before kill_largest_process returns to the control
\* loop, nothing is signalled after it, and the loop goes on to its next pass
C14_EpermThrottled ==
    \A k \in 1..Len(log) :
       DeniedKill(log[k]) =>
          /\ pc \in {"klp_after", "poll_after_kill", "poll"}
          /\ \A j \in (k+1)..Len(log) : log[j].kind # "kill"
          /\ pc \in {"poll_after_kill", "poll"} =>
                /\ stack = <<>>
                /\ log[Len(log)] = SleepCall("EPERM")
                /\ Len(SelectSeq(log, LAMBDA ev : ev = SleepCall("EPERM"))) = 1

C14_Witness ==
    /\ pc = "poll"
    /\ pl.n = 2
    /\ \E k \in 1..Len(log) : DeniedKill(log[k])
    /\ log[Len(log)] = SleepCall("EPERM")

\* C15 (as claimed): every spawn of the notification helper comes, within
\* the same call of kill_largest_process, after a kill_wait attempt on a
\* victim, and none comes in the self-test (signal 0)
C15_NotifyAfterKill ==
    \A k \in 1..Len(log) :
       log[k].kind = "notify" => (klp.sig # 0 /\ kw.done)

\* C20: the self-test of main sends nothing but signal 0, through kill_wait,
\* to at most one process, returns with the result of that kill(2) call
\* without entering the wait loop, and never escalates
C20_SelfTestProbesOnly ==
    (pl = PlNone /\ klp.sig = 0) =>
       /\ \A k \in 1..Len(log) :
             log[k].kind = "kill" => (log[k].sig = 0 /\ log[k].by = "kill_wait")
       /\ Len(Kills) <= 1
       /\ pc # "kw_loop"
       /\ kw.i = 0
       /\ kw.sig = 0
       /\ kw.done => (Len(Kills) = 1 /\ kw.res = LastKill.res)
       /\ \A k \in 1..Len(log) : log[k] # SleepCall("EPERM")

C20_Witness ==
    /\ pc = "poll_loop"
    /\ pl = PlNone
    /\ Len(Kills) = 1
    /\ LastKill.sig = 0
    /\ LastKill.pid > 1
    /\ args.dryrun

\* C16: the status word written by a pass names the arm of the decision that
\* the pass took (decided here from the state before the pass and the
\* snapshot), it is "ok" exactly when no signal was chosen, and with a signal
\* the written setpoint is the threshold of that arm
C16_StatusMapping ==
    [][DecisionStep =>
         LET mem == pl'.m.MemAvailablePercent
             swap == pl'.m.SwapFreePercent
             arm == IF /\ ~args.emerg_kill.null /\ pl.emergency_timeout_ms <= 0
                       /\ mem <= args.mem_emerg_percent
                       /\ swap <= args.swap_kill_percent
                    THEN "emergency"
                    ELSE IF mem <= args.mem_kill_percent /\ swap <= args.swap_kill_percent
                    THEN "kill"
                    ELSE IF mem <= args.mem_term_percent /\ swap <= args.swap_term_percent
                    THEN "term"
                    ELSE IF pl.hystis # 0 /\ mem <= args.mem_high_percent
                    THEN "high"
                    ELSE "ok"
         IN  /\ status'.code = arm
             /\ status'.memavail = mem
             /\ (status'.code = "ok") <=> (pl'.sig = 0)
             /\ arm = "emergency" => status'.setpoint = args.mem_emerg_percent
             /\ arm = "kill" => status'.setpoint = args.mem_kill_percent
             /\ arm = "term" => status'.setpoint = args.mem_term_percent
             /\ arm = "high" => status'.setpoint = args.mem_high_percent]_vars

\* C16 witness: a pass after a kill reads memory above the term limit and at
\* or below the high watermark, and has written "high" with mem_high
C16_Witness ==
    /\ pc = "klp_scan"
    /\ pl.n = 2
    /\ pl.m.MemAvailablePercent > args.mem_term_percent
    /\ status.code = "high"
    /\ status.setpoint = args.mem_high_percent
    /\ status.setpoint # args.mem_term_percent

\* C17: a pass that chooses no signal writes "ok" with setpoint 0, whatever
\* the passes before it did; at the head of every pass hystis = 0 implies
\* current_setpoint = 0
C17_OkSetpointZero ==
    /\ [][DecisionStep =>
            (pl'.sig = 0 => (status'.code = "ok" /\ status'.setpoint = 0))]_vars
    /\ []((pc = "poll" /\ pl.hystis = 0) => pl.current_setpoint = 0)

\* C17 witness: the pass after a kill reads memory above the high watermark
\* and has written "ok" with setpoint 0
C17_Witness ==
    /\ pc = "poll_idle"
    /\ pl.n = 2
    /\ pl.prev_sig # 0
    /\ pl.branch = "recovered"
    /\ status.code = "ok"
    /\ status.setpoint = 0

\* nothing that the scan saw survives the skip rules
NoSurvivor == \A k \in 1..Len(klp.seen) : ~Survives(args, klp.seen[k])

\* the daemon's own pid is the only pid above 1 that the scan saw
SoleSelf ==
    \E k \in 1..Len(klp.seen) :
       /\ klp.seen[k].pid = getpid
       /\ \A j \in 1..Len(klp.seen) :
             (klp.seen[j].numeric /\ klp.seen[j].pid > 1) => j = k

\* C18: a scan after which nothing survives, or in which only the daemon's
\* own pid was found, ends without a victim; without a victim
\* kill_largest_process calls neither kill_wait nor kill(2), sleeps one second
\* once, and returns to its caller
C18_NoVictimReturns ==
    /\ (ScanEnded /\ (NoSurvivor \/ SoleSelf)) => pc = "done"
    /\ pc = "done" =>
          /\ klp.victim.pid = 0
          /\ kw = KwNone
          /\ stack = <<>>
          /\ Kills = <<>>
          /\ log # <<>>
          /\ log[Len(log)] = SleepCall("no victim")
          /\ Len(SelectSeq(log, LAMBDA ev : ev.kind = "sleep")) = 1

\* C18 witness: the daemon itself, which survives every skip rule, is the only
\* process that the scan found, and the call has returned
C18_Witness ==
    /\ pc = "done"
    /\ SoleSelf
    /\ ~NoSurvivor
    /\ klp.sig = SIGTERM

\* how far a percentage of a total is above a limit, in hundredths of a MiB
Headroom(pct, limit, total) == (pct - limit) * total

\* C19: the result of sleep_time_ms is between 100 and 1000 ms, and no
\* snapshot with at least the same memory headroom and at least the same swap
\* headroom gets a shorter sleep
C19_SleepClampedMonotone ==
    pc = "done" =>
       LET r == ToInt(pl.sleep_ms)
           a == args
       IN  /\ 100 <= r /\ r <= 1000
           /\ \A m2 \in SleepReadings :
                 (/\ Headroom(m2.MemAvailablePercent, a.mem_term_percent, m2.MemTotalMiB)
                       >= Headroom(pl.m.MemAvailablePercent, a.mem_term_percent,
                                   pl.m.MemTotalMiB)
                  /\ Headroom(m2.SwapFreePercent, a.swap_term_percent, m2.SwapTotalMiB)
                       >= Headroom(pl.m.SwapFreePercent, a.swap_term_percent,
                                   pl.m.SwapTotalMiB))
                 => sleep_time_ms(a, m2) >= r

\* C19 witness: a result strictly between the two clamps, to which memory and
\* swap both contribute
C19_Witness ==
    /\ pc = "done"
    /\ ToInt(pl.sleep_ms) > 100
    /\ ToInt(pl.sleep_ms) < 1000
    /\ pl.m.MemAvailablePercent > args.mem_term_percent
    /\ pl.m.SwapFreePercent > args.swap_term_percent
    /\ pl.m.SwapTotalMiB > 0
    /\ pl.m.MemTotalMiB > 0

\* C21 (as claimed): a scan in which a process other than the daemon survives
\* the skip rules returns a victim, whatever the badness of the survivors
C21_SurvivorGivesVictim ==
    (ScanEnded /\ SomeoneSurvives) => (pc = "kill_wait" /\ klp.victim.pid > 1)

\* the ControlState of poll_loop and the signal of the pass
Ctl(p) ==
    <<p.hystis, p.emergency_invoked, p.emergency_timeout_ms,
      p.report_countdown_ms, p.current_setpoint, p.sig>>

\* the last step of a pass: back to the head of the loop
EndOfPassStep == MidPass /\ pc' = "poll"

C23_ListBounded ==
    /\ ke.num_victim <= EMERG_LIST_MAX
    /\ Len(ke.victim_list) <= EMERG_LIST_MAX
    /\ ~ke.oob

\* the badness that the rules give a process: its oom_score, less a positive
\* oom_score_adj under ignore_oom_score_adj, 300 more for a preferred name,
\* 300 less for an avoided name, 150 less for an avoided user, and for a name
\* that prefer_old matches the process's own runtime in seconds over 600,
\* if its times could be read
ClaimedBadness(a, e) ==
    e.oom_score
    - (IF a.ignore_oom_score_adj /\ e.oom_score_adj > 0 THEN e.oom_score_adj ELSE 0)
    + (IF ~a.prefer_regex.null /\ e.name \in a.prefer_regex.matches THEN 300 ELSE 0)
    - (IF ~a.avoid_regex.null /\ e.name \in a.avoid_regex.matches THEN 300 ELSE 0)
    - (IF ~a.avoid_users.null /\ e.username \in a.avoid_users.matches THEN 150 ELSE 0)
    + (IF ~a.prefer_old.null /\ e.name \in a.prefer_old.matches /\ e.times.valid
       THEN e.times.c_runtime \div 600 ELSE 0)

\* C24: the badness that the scan has computed for a candidate when it counts
\* it is the badness of the rules, the age bonus from that candidate's own
\* times
C24_BadnessByRules ==
    /\ Len(klp.trace) = Len(klp.seen)
    /\ \A k \in 1..Len(klp.trace) :
          klp.trace[k].counted =>
             klp.trace[k].badness = ClaimedBadness(args, klp.seen[k])

\* C24 witness: a process whose name prefer_old matches and whose times could
\* not be read is counted right after an old process with a matching name,
\* and gets no bonus
C24_Witness ==
    /\ Len(klp.seen) = 2
    /\ ~args.prefer_old.null
    /\ args.avoid_regex.null
    /\ klp.seen[1].name = "php-cgi" /\ klp.seen[1].times.valid
    /\ klp.trace[1].counted /\ klp.trace[1].badness = 102
    /\ klp.seen[2].name = "mysqld" /\ ~klp.seen[2].times.valid
    /\ klp.trace[2].counted /\ klp.trace[2].badness = 100

\* one turn of the readdir loop of kill_largest_process
ScanStep == pc = "klp_scan" /\ Len(klp'.seen) = Len(klp.seen) + 1

\* a read that the loop body makes of this entry fails
SomeReadFails(a, e) ==
    \/ e.oom_score < 0 \/ e.adj_res < 0 \/ e.comm_res < 0
    \/ e.rss < 0 \/ e.uid < 0
    \/ (~a.avoid_users.null /\ (~e.stat_ok \/ ~e.pw_ok))

\* C25: a turn of the loop on an entry one of whose reads fails leaves the
\* running best as it was and stays in the loop
C25_FailureIsolated ==
    [][(ScanStep /\ SomeReadFails(args, klp'.seen[Len(klp'.seen)])) =>
          (klp'.victim = klp.victim /\ pc' = "klp_scan")]_vars

\* C25 witness: the scan went on after an entry whose rss could not be read,
\* and chose a later entry
C25_Witness ==
    /\ pc = "kill_wait"
    /\ Len(klp.seen) = 3
    /\ klp.seen[1].rss > 0 /\ klp.trace[1].adj_read
    /\ klp.seen[2].rss < 0 /\ klp.trace[2].rss_read
    /\ klp.seen[3].pid = klp.victim.pid

\* C26: the loop body calls get_vm_rss_kib and the second get_oom_score_adj
\* only for a counted candidate whose badness is not below that of the
\* running best, and the second only after the first
C26_LazyReads ==
    [][ScanStep =>
          LET t == klp'.trace[Len(klp'.trace)]
          IN  /\ t.adj_read => t.rss_read
              /\ t.rss_read => (t.counted /\ t.badness >= klp.victim.badness)
              /\ (t.counted /\ t.badness < klp.victim.badness)
                    => (~t.rss_read /\ ~t.adj_read)]_vars

\* C26 witness: a candidate with a lower badness than the running best was
\* counted and neither read was made for it
C26_Witness ==
    /\ Len(klp.seen) = 2
    /\ klp.victim.pid = klp.seen[1].pid
    /\ klp.trace[2].counted
    /\ klp.trace[2].badness < klp.victim.badness
    /\ klp.seen[2].rss > klp.victim.VmRSSkiB
    /\ ~klp.trace[2].rss_read

\* C27: the kill(2) calls of one call of kill_wait are none (dryrun and a
\* signal other than 0), or the one call with the signal asked for, or that
\* call with SIGTERM, successful, and then one call with SIGKILL; all go to
\* the victim; a call that fails is the last one and kill_wait has returned
\* -1 right after it
C27_SignalSequence ==
    /\ Len(Kills) <= 2
    /\ \A k \in 1..Len(Kills) : Kills[k].pid = kw.pid /\ Kills[k].by = "kill_wait"
    /\ (args.dryrun /\ kw.sig # 0) => Kills = <<>>
    /\ Len(Kills) = 1 => Kills[1].sig = kw.sig
    /\ Len(Kills) = 2 =>
          /\ Kills[1].sig = SIGTERM /\ Kills[1].res = 0
          /\ Kills[2].sig = SIGKILL /\ kw.sig = SIGKILL
    /\ Len(SelectSeq(Kills, LAMBDA c : c.sig = SIGKILL)) <= 1
    /\ (Kills # <<>> /\ LastKill.res # 0) =>
          (kw.done /\ kw.res = -1 /\ pc = "done" /\ kw.i < KW_TICKS)
    /\ (pc = "kw_loop" /\ ~args.dryrun) => Kills # <<>>

\* C27 witness: SIGTERM was delivered, the escalation at a later tick failed,
\* and kill_wait has returned
C27_Witness ==
    /\ pc = "done"
    /\ Len(Kills) = 2
    /\ Kills[1].sig = SIGTERM /\ Kills[1].res = 0
    /\ Kills[2].sig = SIGKILL /\ Kills[2].err = "EPERM"
    /\ kw.i > 0
    /\ kw.res = -1

\* a step that makes a kill(2) call
KillStep == Len(log') > Len(log) /\ log'[Len(log')].kind = "kill"

WatermarksOrdered(a) ==
    /\ a.mem_high_percent >= a.mem_term_percent
    /\ a.mem_term_percent >= a.mem_kill_percent
    /\ a.mem_kill_percent >= a.mem_emerg_percent

\* one of the emergency, kill and term conditions holds for the snapshot m
ThresholdCrossed(a, p, m) ==
    \/ /\ ~a.emerg_kill.null /\ p.emergency_timeout_ms <= 0
       /\ m.MemAvailablePercent <= a.mem_emerg_percent
       /\ m.SwapFreePercent <= a.swap_kill_percent
    \/ /\ m.MemAvailablePercent <= a.mem_kill_percent
       /\ m.SwapFreePercent <= a.swap_kill_percent
    \/ /\ m.MemAvailablePercent <= a.mem_term_percent
       /\ m.SwapFreePercent <= a.swap_term_percent

\* C29: with ordered watermarks, a pass that starts with the hysteresis armed
\* and reads MemAvailable above mem_high chooses no signal, clears hystis and
\* sets current_setpoint to 0; a pass without a signal leaves hystis as the
\* decision left it; and a pass that starts with hystis = 0 chooses a signal
\* only if the emergency, the kill or the term condition holds
C29_Recovery ==
    /\ [][(/\ DecisionStep /\ WatermarksOrdered(args) /\ pl.hystis # 0
           /\ pl'.m.MemAvailablePercent > args.mem_high_percent) =>
            (/\ pl'.sig = 0 /\ pl'.hystis = 0 /\ pl'.current_setpoint = 0
             /\ pc' = "poll_idle" /\ status'.code = "ok")]_vars
    /\ [][(EndOfPassStep /\ pl.sig = 0) =>
            (pl'.hystis = pl.hystis /\ pl'.current_setpoint = pl.current_setpoint)
         ]_vars
    /\ [][(DecisionStep /\ pl.hystis = 0 /\ pl'.sig # 0) =>
            ThresholdCrossed(args, pl, pl'.m)]_vars
    /\ [][(DecisionStep /\ pl.hystis = 0 /\ ~ThresholdCrossed(args, pl, pl'.m)) =>
            (pl'.sig = 0 /\ pl'.hystis = 0)]_vars

\* C29 witness: an emergency pass, then a pass that read memory above mem_high
\* and chose no signal, then a pass that reads memory between mem_term and
\* mem_high, where the hysteresis would have gone on killing, and chooses no
\* signal
C29_Witness ==
    /\ WatermarksOrdered(args)
    /\ pc = "poll_idle"
    /\ pl.n = 3
    /\ pl.since_emerg >= 2000
    /\ pl.prev_sig = 0
    /\ pl.hystis = 0
    /\ pl.m.MemAvailablePercent > args.mem_term_percent
    /\ pl.m.MemAvailablePercent <= args.mem_high_percent
    /\ pl.sig = 0

\* C30: every call of kill, whatever the signal and whichever of the
\* self-test, kill_wait with its escalation and kill_emergency makes it, is
\* for a pid above 1, and kill_wait is never entered for a pid of 1 or below
C30_InitNeverSignalled ==
    /\ \A k \in 1..Len(log) : IsKill(log[k]) => log[k].pid > 1
    /\ kw.pid # KwNone.pid => kw.pid > 1

\* C30 witness: kill_emergency, looking for a name that pid 1 carries, has
\* read pid 1's entry, and the pass has killed another process
C30_Witness ==
    /\ pc = "ke_scan"
    /\ ke.i < ke.num_victim
    /\ \E k \in 1..Len(ke.seen) :
         /\ ke.seen[k].pid = 1
         /\ ke.seen[k].numeric
         /\ ke.seen[k].comm_res >= 0
         /\ ke.seen[k].name = ke.victim_list[ke.i + 1]
    /\ Kills # <<>>
    /\ LastKill.by = "kill_emergency"

\* C31: the sleep_ms that a pass of poll_loop hands to usleep has been
\* assigned, by that pass or by one before it
C31_SleepAssigned == [][EndOfPassStep => pl'.assigned]_vars

\* a pass that decided on no signal comes to its end
IdleEndStep == EndOfPassStep /\ pl.sig = 0

\* C32: a pass that chooses no signal sleeps between 100 and 1000 ms at its
\* end; stated for the passes whose sleep_ms holds an assigned value, so that
\* what fails is the cadence and not the missing initialisation
C32_IdleSleepClamped ==
    [][(IdleEndStep /\ pl'.assigned) =>
         (ToInt(pl'.sleep_ms) >= min_sleep /\ ToInt(pl'.sleep_ms) <= max_sleep)]_vars

\* C33: report_countdown_ms stays above a floor, here -CountdownFloor, which
\* is sixteen sleeps of the longest kind below the 0 it starts from
C33_CountdownBounded == pl.report_countdown_ms > -CountdownFloor
====
